---- MODULE Spec2Model ----
(***************************************************************************)
(* Model of materials-commons/mcglobusfs:                                  *)
(*   pkg/monitor/globus_task_monitor.go        (GlobusTaskMonitor)         *)
(*   pkg/fs/mcbridgefs/transfer_path_context.go (TransferPathContext)      *)
(*                                                                         *)
(* Go strings are sequences of one-character strings, so that Split,       *)
(* SplitN, Atoi, time.Parse and filepath.Join are computed character by    *)
(* character as the library does.                                          *)
(***************************************************************************)
EXTENDS Integers, Sequences, FiniteSets, TLC

VARIABLES
    pc,                   \* pc[l]: position of poll loop (goroutine) l
    cancelled,            \* cancelled[l]: ctx.Done() of the ctx given to Start is closed
    tasks,                \* tasks[l]: the tasks of tasks.Tasks the range loop has not visited yet
    qerr,                 \* qerr[l]: the last GetEndpointTaskList call that returned gave err != nil
    transfers,            \* transfers[l]: result of the last successful GetTaskSuccessfulTransfers
    events,               \* events[l]: what happened to each task of the current cycle, in order
    sawDone,              \* sawDone[l]: `case <-c.Done()` (line 87) was taken in the current cycle
    finishedGlobusTasks,  \* m.finishedGlobusTasks (the keys of the map)
    lastProcessedTime,    \* m.lastProcessedTime
    handoffs,             \* handoffs[id]: times line 146 was reached for id (saturating)
    fetchFailed,          \* fetchFailed.ids: tasks whose GetTaskSuccessfulTransfers has failed so
                          \* far, recorded when Init sets fetchFailed.on
    startedCancelled,     \* startedCancelled[l]: ctx.Done() was closed when Start was called
    path,                 \* codec: the argument p of ToTransferPathContext
    ctx,                  \* codec: the value ToTransferPathContext returned (or Panic / NotCalled)
    input,                \* codec: the receiver p and the argument name of ToFSPath
    encoded               \* codec: what ProjectPathContext and ToFSPath returned (or NotEncoded)

vars == <<pc, cancelled, tasks, qerr, transfers, events, sawDone,
          finishedGlobusTasks, lastProcessedTime, handoffs, fetchFailed,
          startedCancelled, path, ctx, input, encoded>>

monitorVars == <<pc, cancelled, tasks, qerr, transfers, events, sawDone,
                 finishedGlobusTasks, lastProcessedTime, handoffs, fetchFailed,
                 startedCancelled>>

codecVars == <<path, ctx, input, encoded>>

-----------------------------------------------------------------------------
(* Bounds *)

\* Start may be called this many times on one monitor.
MaxStarts == 2
\* Longest task list one GetEndpointTaskList call returns.
MaxTasks == 2
\* handoffs[id] counts up to this value and then stays there.
MaxHandoffs == 2
\* Most '/'-separated pieces of a path handed to ToTransferPathContext.
MaxPieces == 5
\* Most '/'-separated pieces of the Path field of a context that is encoded.
MaxRelPieces == 3

Loops == 1..MaxStarts

-----------------------------------------------------------------------------
(* Strings *)

Digits == {"0", "1", "2", "3", "4", "5", "6", "7", "8", "9"}

DigitVal(c) ==
    CASE c = "0" -> 0 [] c = "1" -> 1 [] c = "2" -> 2 [] c = "3" -> 3
      [] c = "4" -> 4 [] c = "5" -> 5 [] c = "6" -> 6 [] c = "7" -> 7
      [] c = "8" -> 8 [] c = "9" -> 9

\* Index of the first occurrence of character sep in s, 0 when there is none.
IndexOf(s, sep) ==
    IF \E i \in 1..Len(s) : s[i] = sep
    THEN CHOOSE i \in 1..Len(s) : s[i] = sep /\ \A j \in 1..(i - 1) : s[j] # sep
    ELSE 0

\* strings.SplitN(s, sep, n) for a one-character sep and n > 0: at most n
\* pieces, the last one the unsplit remainder.
RECURSIVE SplitN(_, _, _)
SplitN(s, sep, n) ==
    IF n = 1 \/ IndexOf(s, sep) = 0
    THEN <<s>>
    ELSE <<SubSeq(s, 1, IndexOf(s, sep) - 1)>>
         \o SplitN(SubSeq(s, IndexOf(s, sep) + 1, Len(s)), sep, n - 1)

\* strings.Split(s, sep) for a one-character sep: every piece (n = -1).
Split(s, sep) == SplitN(s, sep, Len(s) + 1)

\* Value of a non-empty sequence of digits.
RECURSIVE DigitsVal(_)
DigitsVal(s) ==
    IF Len(s) = 0 THEN 0
    ELSE 10 * DigitsVal(SubSeq(s, 1, Len(s) - 1)) + DigitVal(s[Len(s)])

IsDigits(s) == Len(s) > 0 /\ \A i \in 1..Len(s) : s[i] \in Digits


-----------------------------------------------------------------------------
(* time.Parse(time.RFC3339, s) and Time.After                              *)
(* A time is <<year, month, day, hour, minute, second>> in UTC, compared   *)
(* lexicographically.  The layout modelled is "2006-01-02T15:04:05Z"; the  *)
(* inputs of the model hold no fractional seconds and no numeric offset.   *)

IsLeap(y) == (y % 4 = 0 /\ y % 100 # 0) \/ y % 400 = 0

DaysIn(mo, y) ==
    IF mo = 2 THEN (IF IsLeap(y) THEN 29 ELSE 28)
    ELSE IF mo \in {4, 6, 9, 11} THEN 30 ELSE 31

TimeParse(s) ==
    LET shape == /\ Len(s) = 20
                 /\ s[5] = "-" /\ s[8] = "-" /\ s[11] = "T"
                 /\ s[14] = ":" /\ s[17] = ":" /\ s[20] = "Z"
                 /\ \A i \in {1, 2, 3, 4, 6, 7, 9, 10, 12, 13, 15, 16, 18, 19} :
                        s[i] \in Digits
        y  == DigitsVal(SubSeq(s, 1, 4))
        mo == DigitsVal(SubSeq(s, 6, 7))
        d  == DigitsVal(SubSeq(s, 9, 10))
        h  == DigitsVal(SubSeq(s, 12, 13))
        mi == DigitsVal(SubSeq(s, 15, 16))
        se == DigitsVal(SubSeq(s, 18, 19))
    IN  IF shape /\ mo \in 1..12 /\ d \in 1..DaysIn(mo, y)
              /\ h < 24 /\ mi < 60 /\ se < 60
        THEN [err |-> FALSE, t |-> <<y, mo, d, h, mi, se>>]
        ELSE [err |-> TRUE,  t |-> <<1, 1, 1, 0, 0, 0>>]

\* a.After(b)
RECURSIVE After(_, _)
After(a, b) ==
    IF Len(a) = 0 THEN FALSE
    ELSE IF a[1] # b[1] THEN a[1] > b[1]
    ELSE After(Tail(a), Tail(b))

-----------------------------------------------------------------------------
(* The transfer service: the tasks it lists and the items of each task     *)

StampEqual  == <<"2","0","0","9","-","1","1","-","1","0","T","2","3",":","0","0",":","0","0","Z">>
StampBefore == <<"2","0","0","9","-","1","1","-","1","0","T","2","2",":","5","9",":","5","9","Z">>
StampAfter  == <<"2","0","2","0","-","1","2","-","0","1","T","1","0",":","0","0",":","0","0","Z">>
StampBad    == <<"2","0","2","0","-","1","3","-","0","1">>

\* Destination paths.  Upload7 and Upload8 belong to different uploads
\* (<user-id> 7 and 8) below the same /t/g.
Upload7   == <<"/","t","/","g","/","7","/","9","/","f">>
Upload8   == <<"/","t","/","g","/","8","/","9","/","f">>
UploadH   == <<"/","t","/","h","/","7","/","9","/","f">>
Short4    == <<"/","t","/","g","/","7">>
Download  == << >>
SourceP   == <<"/","s">>

Item(src, dst) == [SourcePath |-> src, DestinationPath |-> dst]

\* globus.Task values the endpoint can list, in completion_time ASC order
\* (the unparsable one sorts wherever the service puts it: first here).
TaskUniverse ==
    << [TaskID |-> "bad",    CompletionTime |-> StampBad],
       [TaskID |-> "before", CompletionTime |-> StampBefore],
       [TaskID |-> "equal",  CompletionTime |-> StampEqual],
       [TaskID |-> "empty",  CompletionTime |-> StampAfter],
       [TaskID |-> "down",   CompletionTime |-> StampAfter],
       [TaskID |-> "short",  CompletionTime |-> StampAfter],
       [TaskID |-> "up7",    CompletionTime |-> StampAfter],
       [TaskID |-> "up8",    CompletionTime |-> StampAfter] >>

\* globus.TransferItems.Transfers of a task.
TransfersOf(taskID) ==
    CASE taskID = "bad"    -> <<Item(SourceP, UploadH)>>
      [] taskID = "before" -> <<Item(SourceP, UploadH)>>
      [] taskID = "equal"  -> <<Item(SourceP, UploadH)>>
      [] taskID = "empty"  -> << >>
      [] taskID = "down"   -> <<Item(SourceP, Download), Item(SourceP, Upload7)>>
      [] taskID = "short"  -> <<Item(SourceP, Short4)>>
      [] taskID = "up7"    -> <<Item(SourceP, Upload7)>>
      [] taskID = "up8"    -> <<Item(SourceP, Upload8)>>

\* What one GetEndpointTaskList call can return: up to MaxTasks tasks of the
\* universe, each at most once, in the service's order.
TaskLists ==
    LET N    == Len(TaskUniverse)
        idxs == UNION {[1..n -> 1..N] : n \in 0..MaxTasks}
        incr == {f \in idxs : \A i \in 1..(Len(f) - 1) : f[i] < f[i + 1]}
    IN  {[i \in 1..Len(f) |-> TaskUniverse[f[i]]] : f \in incr}

\* Every identifier processTransfers can extract from the service's paths.
RoutingIds ==
    LET dsts == UNION {{TransfersOf(TaskUniverse[i].TaskID)[k].DestinationPath :
                            k \in 1..Len(TransfersOf(TaskUniverse[i].TaskID))} :
                        i \in 1..Len(TaskUniverse)}
    IN  {Split(d, "/")[3] : d \in {e \in dsts : Len(Split(e, "/")) >= 3}}

-----------------------------------------------------------------------------
(* strconv.Atoi, filepath.Join, ToTransferPathContext *)

\* strconv.Atoi(s) with the error dropped (`userID, _ = strconv.Atoi(..)`):
\* an optional sign and decimal digits, 0 on a syntax error.  The model's
\* inputs are far shorter than the 19 characters at which a range error
\* becomes possible.
Atoi(s) ==
    LET signed == Len(s) > 0 /\ s[1] \in {"-", "+"}
        body   == IF signed THEN Tail(s) ELSE s
    IN  IF ~IsDigits(body) THEN 0
        ELSE IF signed /\ s[1] = "-" THEN 0 - DigitsVal(body)
        ELSE DigitsVal(body)

\* strings.Join(elems, "/")
RECURSIVE JoinSlash(_)
JoinSlash(elems) ==
    IF Len(elems) = 0 THEN << >>
    ELSE IF Len(elems) = 1 THEN elems[1]
    ELSE elems[1] \o <<"/">> \o JoinSlash(Tail(elems))

\* The components filepath.Clean keeps, given those kept so far: "" and "."
\* are dropped, ".." removes the last kept component, is dropped at the
\* root and is kept at the front of a relative path.
RECURSIVE CleanParts(_, _, _)
CleanParts(kept, rest, rooted) ==
    IF Len(rest) = 0 THEN kept
    ELSE LET c == Head(rest)
         IN  IF c = << >> \/ c = <<".">>
             THEN CleanParts(kept, Tail(rest), rooted)
             ELSE IF c = <<".", ".">>
             THEN IF Len(kept) > 0 /\ kept[Len(kept)] # <<".", ".">>
                  THEN CleanParts(SubSeq(kept, 1, Len(kept) - 1), Tail(rest), rooted)
                  ELSE IF rooted
                  THEN CleanParts(kept, Tail(rest), rooted)
                  ELSE CleanParts(Append(kept, c), Tail(rest), rooted)
             ELSE CleanParts(Append(kept, c), Tail(rest), rooted)

\* filepath.Clean(p) on a '/'-separated path.
Clean(p) ==
    IF Len(p) = 0 THEN <<".">>
    ELSE LET rooted == p[1] = "/"
             out    == JoinSlash(CleanParts(<< >>, Split(p, "/"), rooted))
         IN  IF rooted THEN <<"/">> \o out
             ELSE IF Len(out) = 0 THEN <<".">>
             ELSE out

\* filepath.Join(elems...): the elements from the first non-empty one on,
\* joined by "/" and cleaned; "" when every element is empty.
RECURSIVE Join(_)
Join(elems) ==
    IF Len(elems) = 0 THEN << >>
    ELSE IF Head(elems) = << >> THEN Join(Tail(elems))
    ELSE Clean(JoinSlash(elems))

\* The run-time panic of an index out of range.
Panic == [called |-> TRUE, panic |-> TRUE]

\* ToTransferPathContext with the fifth piece stored as it is, without
\* filepath.Join("/", ..).
ToTransferPathContextRawRest(p) ==
    LET pathParts == SplitN(p, "/", 5)
        userID    == IF Len(pathParts) > 2 THEN Atoi(pathParts[3]) ELSE 0
        projectID == IF Len(pathParts) > 3 THEN Atoi(pathParts[4]) ELSE 0
        rest      == IF Len(pathParts) = 5 THEN pathParts[5]
                     ELSE IF userID # 0 /\ projectID # 0 THEN <<"/">>
                     ELSE << >>
    IN  IF Len(pathParts) < 2 THEN Panic
        ELSE [called       |-> TRUE,
              panic        |-> FALSE,
              TransferType |-> pathParts[2],
              UserID       |-> userID,
              ProjectID    |-> projectID,
              Path         |-> rest]

\* ToTransferPathContext with `userID != 0 || projectID != 0`.
ToTransferPathContextEitherId(p) ==
    LET pathParts == SplitN(p, "/", 5)
        userID    == IF Len(pathParts) > 2 THEN Atoi(pathParts[3]) ELSE 0
        projectID == IF Len(pathParts) > 3 THEN Atoi(pathParts[4]) ELSE 0
        rest      == IF Len(pathParts) = 5 THEN Join(<< <<"/">>, pathParts[5] >>)
                     ELSE IF userID # 0 \/ projectID # 0 THEN <<"/">>
                     ELSE << >>
    IN  IF Len(pathParts) < 2 THEN Panic
        ELSE [called       |-> TRUE,
              panic        |-> FALSE,
              TransferType |-> pathParts[2],
              UserID       |-> userID,
              ProjectID    |-> projectID,
              Path         |-> rest]

\* ToTransferPathContext(p).  pathParts[1] of the return statement is read
\* whatever len(pathParts) is.
ToTransferPathContext(p) ==
    LET pathParts == SplitN(p, "/", 5)
        userID    == IF Len(pathParts) > 2 THEN Atoi(pathParts[3]) ELSE 0
        projectID == IF Len(pathParts) > 3 THEN Atoi(pathParts[4]) ELSE 0
        rest      == IF Len(pathParts) = 5 THEN Join(<< <<"/">>, pathParts[5] >>)
                     ELSE IF userID # 0 /\ projectID # 0 THEN <<"/">>
                     ELSE << >>
    IN  IF Len(pathParts) < 2 THEN Panic
        ELSE [called       |-> TRUE,
              panic        |-> FALSE,
              TransferType |-> pathParts[2],
              UserID       |-> userID,
              ProjectID    |-> projectID,
              Path         |-> rest]

\* fmt.Sprintf("%d", n)
RECURSIVE Itoa(_)
Itoa(n) ==
    IF n < 0 THEN <<"-">> \o Itoa(0 - n)
    ELSE IF n < 10 THEN <<CHOOSE c \in Digits : DigitVal(c) = n>>
    ELSE Itoa(n \div 10) \o <<CHOOSE c \in Digits : DigitVal(c) = n % 10>>

\* fmt.Sprintf("%d/%d", p.UserID, p.ProjectID)
UserProject(p) == Itoa(p.UserID) \o <<"/">> \o Itoa(p.ProjectID)

\* p.ProjectPathContext()
ProjectPathContext(p) ==
    Join(<< <<"/">>, p.TransferType, UserProject(p) >>)

\* ToFSPath leaving name out of the join.
ToFSPathNoName(p, name) ==
    Join(<< <<"/">>, p.TransferType, UserProject(p), p.Path >>)

\* p.ToFSPath(name)
ToFSPath(p, name) ==
    Join(<< <<"/">>, p.TransferType, UserProject(p), p.Path, name >>)

-----------------------------------------------------------------------------
(* GlobusTaskMonitor *)

\* NewGlobusTaskMonitor: time.Date(2009, time.November, 10, 23, 0, 0, 0, time.UTC)
InitialLastProcessedTime == <<2009, 11, 10, 23, 0, 0>>

\* The codec's result before any call.
NotCalled == [called |-> FALSE]

\* No encoding made yet.
NotEncoded == [called |-> FALSE]

\* The zero value TransferPathContext{} and the name "".
NoInput ==
    [p    |-> [TransferType |-> << >>, UserID |-> 0, ProjectID |-> 0, Path |-> << >>],
     name |-> << >>]

\* The codec is not used.
CodecIdle == path = << >> /\ ctx = NotCalled /\ input = NoInput /\ encoded = NotEncoded

MonitorInit ==
    /\ pc = [l \in Loops |-> "idle"]
    /\ cancelled = [l \in Loops |-> FALSE]
    /\ tasks = [l \in Loops |-> << >>]
    /\ qerr = [l \in Loops |-> FALSE]
    /\ transfers = [l \in Loops |-> << >>]
    /\ events = [l \in Loops |-> << >>]
    /\ sawDone = [l \in Loops |-> FALSE]
    /\ finishedGlobusTasks = {}
    /\ lastProcessedTime = InitialLastProcessedTime
    /\ handoffs = [id \in RoutingIds |-> 0]
    /\ fetchFailed \in {[on |-> FALSE, ids |-> {}], [on |-> TRUE, ids |-> {}]}
    /\ startedCancelled = [l \in Loops |-> FALSE]

\* processTask with !Before in place of After: a task completed exactly at
\* the watermark is admitted.
processTaskNotBefore(lastProcessed, task) ==
    LET parsed == TimeParse(task.CompletionTime)
    IN  IF parsed.err THEN FALSE
        ELSE ~After(lastProcessed, parsed.t)

\* processTask: admit a task whose completion time parses and is after the
\* watermark.
processTask(lastProcessed, task) ==
    LET parsed == TimeParse(task.CompletionTime)
    IN  IF parsed.err THEN FALSE
        ELSE After(parsed.t, lastProcessed)

\* processTransfers with the sanity check `len(pieces) < 4`.
processTransfersFourPieces(finished, trs) ==
    LET transferItem == trs[1]
        pieces       == Split(transferItem.DestinationPath, "/")
        id           == pieces[3]
    IN  IF transferItem.DestinationPath = << >>
        THEN [event |-> "download", id |-> << >>, finished |-> finished]
        ELSE IF Len(pieces) < 4
        THEN [event |-> "malformed", id |-> << >>, finished |-> finished]
        ELSE IF id \in finished
        THEN [event |-> "seen", id |-> id, finished |-> finished]
        ELSE [event |-> "handoff", id |-> id, finished |-> finished]

\* processTransfers correlating on the last item instead of the first.
processTransfersLastItem(finished, trs) ==
    LET transferItem == trs[Len(trs)]
        pieces       == Split(transferItem.DestinationPath, "/")
        id           == pieces[3]
    IN  IF transferItem.DestinationPath = << >>
        THEN [event |-> "download", id |-> << >>, finished |-> finished]
        ELSE IF Len(pieces) < 5
        THEN [event |-> "malformed", id |-> << >>, finished |-> finished]
        ELSE IF id \in finished
        THEN [event |-> "seen", id |-> id, finished |-> finished]
        ELSE [event |-> "handoff", id |-> id, finished |-> finished]

\* processTransfers on the items of one task, with m.finishedGlobusTasks =
\* finished.  event: which return was taken ("handoff": line 146 was reached);
\* id: the identifier extracted; finished: the map afterwards (no statement
\* of the function stores into it).
processTransfers(finished, trs) ==
    LET transferItem == trs[1]
        pieces       == Split(transferItem.DestinationPath, "/")
        id           == pieces[3]
    IN  IF transferItem.DestinationPath = << >>
        THEN [event |-> "download", id |-> << >>, finished |-> finished]
        ELSE IF Len(pieces) < 5
        THEN [event |-> "malformed", id |-> << >>, finished |-> finished]
        ELSE IF id \in finished
        THEN [event |-> "seen", id |-> id, finished |-> finished]
        ELSE [event |-> "handoff", id |-> id, finished |-> finished]

\* One more hand-off of id (the count stops at MaxHandoffs).
CountHandoff(h, id) ==
    [h EXCEPT ![id] = IF h[id] < MaxHandoffs THEN h[id] + 1 ELSE h[id]]

\* Start with the loop written `for { select {..}; retrieve }`: a context
\* that is already cancelled ends the loop before the first query.
StartChecksDone(l) ==
    /\ pc[l] = "idle"
    /\ \A k \in Loops : k < l => pc[k] # "idle"
    /\ pc' = [pc EXCEPT ![l] = IF cancelled[l] THEN "done" ELSE "query"]
    /\ startedCancelled' = [startedCancelled EXCEPT ![l] = cancelled[l]]
    /\ UNCHANGED <<cancelled, tasks, qerr, transfers, events, sawDone,
                   finishedGlobusTasks, lastProcessedTime, handoffs, fetchFailed, codecVars>>

\* Start: go m.monitorAndProcessTasks(ctx).  Loop l is the goroutine of the
\* l-th call; nothing in Start looks at earlier calls.
Start(l) ==
    /\ pc[l] = "idle"
    /\ \A k \in Loops : k < l => pc[k] # "idle"
    /\ pc' = [pc EXCEPT ![l] = "query"]
    /\ startedCancelled' = [startedCancelled EXCEPT ![l] = cancelled[l]]
    /\ UNCHANGED <<cancelled, tasks, qerr, transfers, events, sawDone,
                   finishedGlobusTasks, lastProcessedTime, handoffs, fetchFailed, codecVars>>

\* The owner of the context given to the l-th Start cancels it.
Cancel(l) ==
    /\ ~cancelled[l]
    /\ cancelled' = [cancelled EXCEPT ![l] = TRUE]
    /\ UNCHANGED <<pc, tasks, qerr, transfers, events, sawDone,
                   finishedGlobusTasks, lastProcessedTime, handoffs, fetchFailed, startedCancelled, codecVars>>

\* QueryFail moving the watermark to the time of the failed query.
QueryFailAdvancesWatermark(l) ==
    /\ pc[l] = "query"
    /\ qerr' = [qerr EXCEPT ![l] = TRUE]
    /\ lastProcessedTime' = TimeParse(StampAfter).t
    /\ pc' = [pc EXCEPT ![l] = "select"]
    /\ UNCHANGED <<cancelled, tasks, transfers, events, sawDone,
                   finishedGlobusTasks, handoffs, fetchFailed, startedCancelled, codecVars>>

\* QueryFail treating the error as fatal: the poll loop ends.
QueryFailReturns(l) ==
    /\ pc[l] = "query"
    /\ qerr' = [qerr EXCEPT ![l] = TRUE]
    /\ pc' = [pc EXCEPT ![l] = "done"]
    /\ UNCHANGED <<cancelled, tasks, transfers, events, sawDone,
                   finishedGlobusTasks, lastProcessedTime, handoffs, fetchFailed, startedCancelled, codecVars>>

\* retrieveAndProcessUploads, lines 58-63: GetEndpointTaskList fails.
QueryFail(l) ==
    /\ pc[l] = "query"
    /\ qerr' = [qerr EXCEPT ![l] = TRUE]
    /\ pc' = [pc EXCEPT ![l] = "select"]
    /\ UNCHANGED <<cancelled, tasks, transfers, events, sawDone,
                   finishedGlobusTasks, lastProcessedTime, handoffs, fetchFailed, startedCancelled, codecVars>>

\* retrieveAndProcessUploads, line 58: GetEndpointTaskList returns ts.
QueryOk(l, ts) ==
    /\ pc[l] = "query"
    /\ qerr' = [qerr EXCEPT ![l] = FALSE]
    /\ tasks' = [tasks EXCEPT ![l] = ts]
    /\ pc' = [pc EXCEPT ![l] = "loop"]
    /\ UNCHANGED <<cancelled, transfers, events, sawDone,
                   finishedGlobusTasks, lastProcessedTime, handoffs, fetchFailed, startedCancelled, codecVars>>

\* retrieveAndProcessUploads, lines 65-68: the head of the range loop.
NextTask(l) ==
    /\ pc[l] = "loop"
    /\ IF tasks[l] = << >>
       THEN /\ pc' = [pc EXCEPT ![l] = "select"]
            /\ UNCHANGED <<tasks, events>>
       ELSE IF ~processTask(lastProcessedTime, Head(tasks[l]))
       THEN /\ tasks' = [tasks EXCEPT ![l] = Tail(tasks[l])]
            /\ events' = [events EXCEPT ![l] = Append(events[l],
                   IF TimeParse(Head(tasks[l]).CompletionTime).err
                   THEN "badtime" ELSE "notafter")]
            /\ UNCHANGED pc
       ELSE /\ pc' = [pc EXCEPT ![l] = "fetch"]
            /\ UNCHANGED <<tasks, events>>
    /\ UNCHANGED <<cancelled, qerr, transfers, sawDone,
                   finishedGlobusTasks, lastProcessedTime, handoffs, fetchFailed, startedCancelled, codecVars>>

\* FetchFail moving the watermark to the failed task's completion time.
FetchFailAdvancesWatermark(l) ==
    /\ pc[l] = "fetch"
    /\ tasks' = [tasks EXCEPT ![l] = Tail(tasks[l])]
    /\ events' = [events EXCEPT ![l] = Append(events[l], "fetcherr")]
    /\ fetchFailed' = IF fetchFailed.on
                      THEN [fetchFailed EXCEPT !.ids = @ \cup {Head(tasks[l]).TaskID}]
                      ELSE fetchFailed
    /\ lastProcessedTime' = TimeParse(Head(tasks[l]).CompletionTime).t
    /\ pc' = [pc EXCEPT ![l] = "loop"]
    /\ UNCHANGED <<cancelled, qerr, transfers, sawDone,
                   finishedGlobusTasks, handoffs, startedCancelled, codecVars>>

\* FetchFail with `return` in place of `continue`: the cycle ends there.
FetchFailReturns(l) ==
    /\ pc[l] = "fetch"
    /\ events' = [events EXCEPT ![l] = Append(events[l], "fetcherr")]
    /\ fetchFailed' = IF fetchFailed.on
                      THEN [fetchFailed EXCEPT !.ids = @ \cup {Head(tasks[l]).TaskID}]
                      ELSE fetchFailed
    /\ pc' = [pc EXCEPT ![l] = "select"]
    /\ UNCHANGED <<cancelled, tasks, qerr, transfers, sawDone,
                   finishedGlobusTasks, lastProcessedTime, handoffs, startedCancelled, codecVars>>

\* retrieveAndProcessUploads, lines 71-76: GetTaskSuccessfulTransfers fails.
FetchFail(l) ==
    /\ pc[l] = "fetch"
    /\ tasks' = [tasks EXCEPT ![l] = Tail(tasks[l])]
    /\ events' = [events EXCEPT ![l] = Append(events[l], "fetcherr")]
    /\ fetchFailed' = IF fetchFailed.on
                      THEN [fetchFailed EXCEPT !.ids = @ \cup {Head(tasks[l]).TaskID}]
                      ELSE fetchFailed
    /\ pc' = [pc EXCEPT ![l] = "loop"]
    /\ UNCHANGED <<cancelled, qerr, transfers, sawDone,
                   finishedGlobusTasks, lastProcessedTime, handoffs, startedCancelled, codecVars>>

\* FetchOk setting the watermark to the completion time of a task whose
\* items went through processTransfers.
FetchOkAdvancesWatermark(l) ==
    /\ pc[l] = "fetch"
    /\ LET trs == TransfersOf(Head(tasks[l]).TaskID)
           r   == processTransfers(finishedGlobusTasks, trs)
       IN  /\ transfers' = [transfers EXCEPT ![l] = trs]
           /\ IF Len(trs) = 0
              THEN /\ events' = [events EXCEPT ![l] = Append(events[l], "noitems")]
                   /\ UNCHANGED <<finishedGlobusTasks, handoffs, sawDone, lastProcessedTime>>
              ELSE /\ events' = [events EXCEPT ![l] = Append(events[l], r.event)]
                   /\ finishedGlobusTasks' = r.finished
                   /\ handoffs' = IF r.event = "handoff"
                                  THEN CountHandoff(handoffs, r.id)
                                  ELSE handoffs
                   /\ sawDone' = [sawDone EXCEPT ![l] = sawDone[l] \/ cancelled[l]]
                   /\ lastProcessedTime' = TimeParse(Head(tasks[l]).CompletionTime).t
    /\ tasks' = [tasks EXCEPT ![l] = Tail(tasks[l])]
    /\ pc' = [pc EXCEPT ![l] = "loop"]
    /\ UNCHANGED <<cancelled, qerr, fetchFailed, startedCancelled, codecVars>>

\* retrieveAndProcessUploads, lines 71-91: GetTaskSuccessfulTransfers returns
\* the task's items.  No items: continue.  Otherwise processTransfers, then
\* the select of lines 86-90, whose break leaves the select statement only:
\* the range loop goes on to the next task either way.
FetchOk(l) ==
    /\ pc[l] = "fetch"
    /\ LET trs == TransfersOf(Head(tasks[l]).TaskID)
           r   == processTransfers(finishedGlobusTasks, trs)
       IN  /\ transfers' = [transfers EXCEPT ![l] = trs]
           /\ IF Len(trs) = 0
              THEN /\ events' = [events EXCEPT ![l] = Append(events[l], "noitems")]
                   /\ UNCHANGED <<finishedGlobusTasks, handoffs, sawDone>>
              ELSE /\ events' = [events EXCEPT ![l] = Append(events[l], r.event)]
                   /\ finishedGlobusTasks' = r.finished
                   /\ handoffs' = IF r.event = "handoff"
                                  THEN CountHandoff(handoffs, r.id)
                                  ELSE handoffs
                   /\ sawDone' = [sawDone EXCEPT ![l] = sawDone[l] \/ cancelled[l]]
    /\ tasks' = [tasks EXCEPT ![l] = Tail(tasks[l])]
    /\ pc' = [pc EXCEPT ![l] = "loop"]
    /\ UNCHANGED <<cancelled, qerr, lastProcessedTime, fetchFailed, startedCancelled, codecVars>>

\* Select with `break` in place of `return` in the Done case: the select
\* statement is left and the for loop runs the next cycle.
SelectBreaks(l) ==
    /\ pc[l] \in {"select", "sleeping"}
    /\ pc[l] = "select" => cancelled[l]
    /\ pc' = [pc EXCEPT ![l] = "query"]
    /\ tasks' = [tasks EXCEPT ![l] = << >>]
    /\ transfers' = [transfers EXCEPT ![l] = << >>]
    /\ events' = [events EXCEPT ![l] = << >>]
    /\ sawDone' = [sawDone EXCEPT ![l] = FALSE]
    /\ UNCHANGED <<cancelled, qerr, finishedGlobusTasks, lastProcessedTime,
                   handoffs, fetchFailed, startedCancelled, codecVars>>

\* monitorAndProcessTasks, lines 40-45.  At "select" the statement is
\* reached: a closed Done is taken at once (the timer is new), otherwise
\* the goroutine sleeps.  At "sleeping" the timer fires (next cycle), or
\* Done, closed meanwhile, is taken; with both ready Go picks either.
Select(l) ==
    \/ /\ pc[l] = "select"
       /\ pc' = [pc EXCEPT ![l] = IF cancelled[l] THEN "done" ELSE "sleeping"]
       /\ UNCHANGED <<cancelled, tasks, qerr, transfers, events, sawDone,
                      finishedGlobusTasks, lastProcessedTime, handoffs, fetchFailed, startedCancelled, codecVars>>
    \/ /\ pc[l] = "sleeping"
       /\ cancelled[l]
       /\ pc' = [pc EXCEPT ![l] = "done"]
       /\ UNCHANGED <<cancelled, tasks, qerr, transfers, events, sawDone,
                      finishedGlobusTasks, lastProcessedTime, handoffs, fetchFailed, startedCancelled, codecVars>>
    \/ /\ pc[l] = "sleeping"
       /\ pc' = [pc EXCEPT ![l] = "query"]
       /\ tasks' = [tasks EXCEPT ![l] = << >>]
       /\ transfers' = [transfers EXCEPT ![l] = << >>]
       /\ events' = [events EXCEPT ![l] = << >>]
       /\ sawDone' = [sawDone EXCEPT ![l] = FALSE]
       /\ UNCHANGED <<cancelled, qerr, finishedGlobusTasks, lastProcessedTime,
                      handoffs, fetchFailed, startedCancelled, codecVars>>

\* One step of loop l or of the owner of its context.
LoopStep(l) ==
    \/ Start(l)
    \/ Cancel(l)
    \/ QueryFail(l)
    \/ \E ts \in TaskLists : QueryOk(l, ts)
    \/ NextTask(l)
    \/ FetchFail(l)
    \/ FetchOk(l)
    \/ Select(l)

Init == MonitorInit /\ ~fetchFailed.on /\ CodecIdle

Next == \E l \in Loops : LoopStep(l)

Spec == Init /\ [][Next]_vars

\* The monitor as it is meant to be used: Start is called once.
NextOneStart == LoopStep(1)

SpecOneStart == Init /\ [][NextOneStart]_vars

\* The goroutine is scheduled, the timer fires and every call to the service
\* returns; nobody has to call Start or to cancel.
Fairness ==
    /\ WF_vars(QueryFail(1) \/ \E ts \in TaskLists : QueryOk(1, ts))
    /\ WF_vars(NextTask(1))
    /\ WF_vars(FetchFail(1) \/ FetchOk(1))
    /\ WF_vars(Select(1))

FairOneStart == SpecOneStart /\ Fairness

\* One Start, with the failed item fetches recorded.
RetryInit == MonitorInit /\ fetchFailed.on /\ CodecIdle

SpecRetry == RetryInit /\ [][NextOneStart]_vars

-----------------------------------------------------------------------------
(* The codec on its own *)

\* The pieces the paths given to ToTransferPathContext are made of.
Segments ==
    { << >>, <<"c","a","t">>, <<"1","2">>, <<"9">>, <<".",".">>, <<"f">> }

\* Every path of 1..MaxPieces pieces, joined by "/" ("" is the one empty
\* piece, "/" two empty pieces).
CodecPaths ==
    {JoinSlash(f) : f \in UNION {[1..n -> Segments] : n \in 1..MaxPieces}}

CodecInit ==
    /\ MonitorInit /\ ~fetchFailed.on
    /\ path \in CodecPaths /\ ctx = NotCalled
    /\ input = NoInput /\ encoded = NotEncoded

Decode ==
    /\ ~ctx.called
    /\ ctx' = ToTransferPathContext(path)
    /\ UNCHANGED <<path, input, encoded, monitorVars>>

CodecNext == Decode

SpecCodec == CodecInit /\ [][CodecNext]_vars

-----------------------------------------------------------------------------
(* Encoding, and decoding what was encoded *)

Globus == <<"g","l","o","b","u","s">>

Categories == { << >>, Globus, <<".",".">>, <<"c","/","f">> }

IdValues == {0, 5, 9}

RelSegments == { << >>, <<"d","a","t","a">>, <<"f",".","t","x","t">>, <<".",".">> }

\* Every Path of 1..MaxRelPieces pieces, joined by "/".
RelPaths ==
    {JoinSlash(f) : f \in UNION {[1..n -> RelSegments] : n \in 1..MaxRelPieces}}

Names == { << >>, <<"f",".","t","x","t">>, <<".",".">> }

Contexts ==
    [TransferType : Categories, UserID : IdValues, ProjectID : IdValues, Path : RelPaths]

EncodeInit ==
    /\ MonitorInit /\ ~fetchFailed.on
    /\ path = << >> /\ ctx = NotCalled
    /\ input \in [p : Contexts, name : Names]
    /\ encoded = NotEncoded

\* p.ProjectPathContext() and p.ToFSPath(name); the full path is what is
\* decoded next.
Encode ==
    /\ ~encoded.called
    /\ encoded' = [called |-> TRUE,
                   scope  |-> ProjectPathContext(input.p),
                   full   |-> ToFSPath(input.p, input.name)]
    /\ path' = ToFSPath(input.p, input.name)
    /\ UNCHANGED <<ctx, input, monitorVars>>

DecodeEncoded == encoded.called /\ Decode

EncodeNext == Encode \/ DecodeEncoded

SpecEncode == EncodeInit /\ [][EncodeNext]_vars

-----------------------------------------------------------------------------
(* Properties *)

\* The items GetTaskSuccessfulTransfers returns for the task loop l is at.
ItemsAt(l) == TransfersOf(Head(tasks[l]).TaskID)

\* C1: a routing identifier is handed off at most once, however often and in
\* however many tasks or poll cycles the query returns it.
C1_HandoffAtMostOnce ==
    \A id \in RoutingIds : handoffs[id] <= 1

\* C2: once the check after a task has seen the cancellation signal, no
\* further task of that cycle has its items fetched.
C2_NoFetchAfterDoneSeen ==
    \A l \in Loops : sawDone[l] => pc[l] # "fetch"

\* C3: whatever the number of calls to Start, at most one poll loop of the
\* monitor is active, so no two poll cycles overlap.
C3_AtMostOneLoop ==
    Cardinality({l \in Loops : pc[l] \notin {"idle", "done"}}) <= 1

\* C4: a failed task-list query processes no task, leaves the watermark, the
\* dedup set and the hand-offs as they were for the rest of the cycle, and,
\* unless cancellation is signaled, the next cycle's query is issued.
C4_QueryFailureIsolated ==
    /\ [](\A l \in Loops : qerr[l] => pc[l] \notin {"loop", "fetch"} /\ events[l] = << >>)
    /\ [][\A l \in Loops : qerr'[l] =>
             /\ lastProcessedTime' = lastProcessedTime
             /\ finishedGlobusTasks' = finishedGlobusTasks
             /\ handoffs' = handoffs]_vars
    /\ \A l \in Loops :
          (qerr[l] /\ pc[l] = "select") ~> (cancelled[l] \/ pc[l] = "query")

C4_Witness ==
    qerr[1] /\ pc[1] = "query" /\ ~cancelled[1]

\* C5: once cancellation is signaled a started poll loop eventually exits,
\* and a loop that has exited never starts another cycle.
C5_CancelStopsLoop ==
    /\ \A l \in Loops : (cancelled[l] /\ pc[l] # "idle") ~> (pc[l] = "done")
    /\ [][\A l \in Loops : pc[l] = "done" => pc'[l] = "done"]_vars

C5_Witness ==
    pc[1] = "done" /\ cancelled[1] /\ Len(events[1]) = MaxTasks

\* C6: a poll loop that has exited was cancelled; no failure ends it.
C6_ExitOnlyOnCancel ==
    \A l \in Loops : pc[l] = "done" => cancelled[l]

C6_Witness ==
    pc[1] = "done" /\ events[1] = <<"badtime", "fetcherr">>

\* C7: a task whose first item's destination path has fewer than 5 pieces
\* is not handed off, and the range loop goes on with the tasks after it.
C7_MalformedPathSkipped ==
    [][\A l \in Loops :
          ( /\ pc[l] = "fetch"
            /\ Len(ItemsAt(l)) > 0
            /\ Len(Split(ItemsAt(l)[1].DestinationPath, "/")) < 5 )
          => /\ handoffs' = handoffs
             /\ pc'[l] \in {"fetch", "loop"}
             /\ pc'[l] = "loop" => tasks'[l] = Tail(tasks[l])]_vars

C7_Witness ==
    /\ events[1] = <<"malformed", "handoff">>
    /\ transfers[1] = <<Item(SourceP, Upload7)>>

\* C8: a task whose first item has an empty destination path (a download)
\* is not handed off and leaves the dedup set as it was.
C8_DownloadExcluded ==
    [][\A l \in Loops :
          ( /\ pc[l] = "fetch"
            /\ Len(ItemsAt(l)) > 0
            /\ ItemsAt(l)[1].DestinationPath = << >> )
          => /\ handoffs' = handoffs
             /\ finishedGlobusTasks' = finishedGlobusTasks]_vars

C8_Witness ==
    /\ pc[1] = "loop"
    /\ Len(transfers[1]) > 0
    /\ transfers[1][1].DestinationPath = << >>
    /\ Len(events[1]) > 0

\* C9: items are fetched only for a task whose completion time parses and is
\* strictly after the watermark.
C9_WatermarkAdmission ==
    \A l \in Loops :
        pc[l] = "fetch" =>
            /\ ~TimeParse(Head(tasks[l]).CompletionTime).err
            /\ After(TimeParse(Head(tasks[l]).CompletionTime).t, lastProcessedTime)

C9_Witness ==
    /\ pc[1] = "loop"
    /\ tasks[1] = << >>
    /\ events[1] = <<"notafter", "notafter">>
    /\ transfers[1] = << >>

\* C10: ToTransferPathContext fails on no input, and "", "/", "/cat" and
\* "/cat/12" decode to the category present and zero for what is missing.
C10_DecodeNeverFails ==
    ctx.called =>
        /\ ~ctx.panic
        /\ path \in {<< >>, <<"/">>} =>
              ctx.TransferType = << >> /\ ctx.UserID = 0 /\ ctx.ProjectID = 0
        /\ path = <<"/","c","a","t">> =>
              ctx.TransferType = <<"c","a","t">> /\ ctx.UserID = 0 /\ ctx.ProjectID = 0
        /\ path = <<"/","c","a","t","/","1","2">> =>
              ctx.TransferType = <<"c","a","t">> /\ ctx.UserID = 12 /\ ctx.ProjectID = 0

\* A non-empty piece without "/" that is neither "." nor "..".
PlainSegment(seg) ==
    /\ Len(seg) > 0
    /\ \A i \in 1..Len(seg) : seg[i] # "/"
    /\ seg \notin { <<".">>, <<".",".">> }

\* A '/'-rooted path.
Rooted(p) == Len(p) > 0 /\ p[1] = "/"

\* "/" or "/" followed by plain segments with one "/" between them.
CleanRooted(p) ==
    /\ Rooted(p)
    /\ \/ p = <<"/">>
       \/ \A i \in 2..Len(Split(p, "/")) : PlainSegment(Split(p, "/")[i])

\* The context the decoded value holds.
SameFields(c, p) ==
    /\ ~c.panic
    /\ c.TransferType = p.TransferType
    /\ c.UserID = p.UserID
    /\ c.ProjectID = p.ProjectID
    /\ c.Path = p.Path

\* C11 as claimed: every context with a non-empty category, positive ids and
\* a '/'-rooted relativePath is decoded from ToFSPath("") with the same four
\* fields.
C11_RoundTripAnyRooted ==
    ( /\ ctx.called /\ encoded.called /\ input.name = << >>
      /\ input.p.TransferType # << >>
      /\ input.p.UserID > 0 /\ input.p.ProjectID > 0
      /\ Rooted(input.p.Path) )
    => SameFields(ctx, input.p)

\* C11 amended: the round trip returns the same four fields when the
\* category is one plain segment, the ids are positive and the relativePath
\* is '/'-rooted and already clean.
C11_RoundTripClean ==
    ( /\ ctx.called /\ encoded.called /\ input.name = << >>
      /\ PlainSegment(input.p.TransferType)
      /\ input.p.UserID > 0 /\ input.p.ProjectID > 0
      /\ CleanRooted(input.p.Path) )
    => SameFields(ctx, input.p)

C11_Witness ==
    /\ ctx.called /\ encoded.called /\ input.name = << >>
    /\ input.p = [TransferType |-> Globus, UserID |-> 5, ProjectID |-> 9,
                  Path |-> <<"/","d","a","t","a","/","f",".","t","x","t">>]
    /\ path = <<"/">> \o Globus \o <<"/","5","/","9","/","d","a","t","a","/","f",".","t","x","t">>
    /\ ctx.Path = input.p.Path

\* x as one more part of a joined path: "" when nothing of it remains.
Normalized(x) ==
    IF Clean(<<"/">> \o x) = <<"/">> THEN << >> ELSE Clean(<<"/">> \o x)

\* "/" + category + "/" + tenantID + "/" + projectID
ScopeText(p) ==
    <<"/">> \o p.TransferType \o <<"/">> \o Itoa(p.UserID) \o <<"/">> \o Itoa(p.ProjectID)

NoDotDot(x) == \A i \in 1..Len(Split(x, "/")) : Split(x, "/")[i] # <<".",".">>

\* C14 as claimed: for every context the scope encoding is the plain
\* concatenation and the full encoding is the scope encoding followed by
\* the normalized relativePath and the normalized suffix.
C14_EncodingAnyContext ==
    encoded.called =>
        /\ encoded.scope = ScopeText(input.p)
        /\ encoded.full = encoded.scope \o Normalized(input.p.Path) \o Normalized(input.name)

\* C14 amended: the same, for a category that is one plain segment and a
\* relativePath and suffix without a ".." piece.
C14_EncodingPlain ==
    ( /\ encoded.called
      /\ PlainSegment(input.p.TransferType)
      /\ NoDotDot(input.p.Path) /\ NoDotDot(input.name) )
    => /\ encoded.scope = ScopeText(input.p)
       /\ encoded.full = encoded.scope \o Normalized(input.p.Path) \o Normalized(input.name)

C14_Witness ==
    /\ encoded.called
    /\ input.p = [TransferType |-> Globus, UserID |-> 5, ProjectID |-> 9,
                  Path |-> <<"/","d","a","t","a">>]
    /\ input.name = <<"f",".","t","x","t">>
    /\ encoded.scope = <<"/">> \o Globus \o <<"/","5","/","9">>
    /\ encoded.full = <<"/">> \o Globus \o <<"/","5","/","9","/","d","a","t","a","/","f",".","t","x","t">>

\* C12: a decoded context with an empty category has tenantID 0 and
\* projectID 0, whatever the input path.
C12_NoIdsWithoutCategory ==
    (ctx.called /\ ~ctx.panic /\ ctx.TransferType = << >>)
    => (ctx.UserID = 0 /\ ctx.ProjectID = 0)

\* C13 as claimed: the relativePath of every decoded context starts with
\* "/", and is "/" when the path has no remainder below the project.
C13_PathAlwaysRooted ==
    (ctx.called /\ ~ctx.panic /\ ~encoded.called)
    => /\ Rooted(ctx.Path)
       /\ Len(Split(path, "/")) < 5 => ctx.Path = <<"/">>

\* C13 amended: the relativePath starts with "/" when the path has a
\* remainder (a fifth piece); without one it is "/" when tenantID and
\* projectID are both non-zero and "" otherwise.
C13_PathRootedWhenResolved ==
    (ctx.called /\ ~ctx.panic /\ ~encoded.called)
    => IF Len(Split(path, "/")) >= 5 THEN Rooted(ctx.Path)
       ELSE IF ctx.UserID # 0 /\ ctx.ProjectID # 0 THEN ctx.Path = <<"/">>
       ELSE ctx.Path = << >>

C13_Witness ==
    /\ ctx.called /\ ~encoded.called
    /\ path = <<"/","c","a","t","/","1","2","/","9">>
    /\ ctx.Path = <<"/">>

\* Loop l takes a step of the range loop (not only its context's owner).
Moves(l) == pc'[l] # pc[l] \/ tasks'[l] # tasks[l]

\* C15: an identifier that has been handed off is in the dedup set.
C15_HandoffRecorded ==
    \A id \in RoutingIds : handoffs[id] > 0 => id \in finishedGlobusTasks

\* C16: a failed item fetch changes neither the watermark nor the dedup set,
\* and a task whose fetch has failed before, met again at the head of the
\* range loop, is admitted and its items are fetched again.
C16_FailedFetchRetried ==
    /\ [][fetchFailed' # fetchFailed =>
             /\ lastProcessedTime' = lastProcessedTime
             /\ finishedGlobusTasks' = finishedGlobusTasks]_vars
    /\ [][\A l \in Loops :
             ( /\ pc[l] = "loop" /\ tasks[l] # << >>
               /\ Head(tasks[l]).TaskID \in fetchFailed.ids
               /\ Moves(l) )
             => (pc'[l] = "fetch" /\ tasks'[l] = tasks[l])]_vars

C16_Witness ==
    /\ pc[1] = "fetch"
    /\ Head(tasks[1]).TaskID \in fetchFailed.ids
    /\ events[1] = << >>

\* C17: a task with an unparsable completion time, a failed item fetch or no
\* items only moves the range loop to the next task, and every task of the
\* list gets its turn.
C17_TaskErrorsIsolated ==
    /\ [][\A l \in Loops :
             ( /\ Moves(l)
               /\ \/ /\ pc[l] = "loop" /\ tasks[l] # << >>
                     /\ TimeParse(Head(tasks[l]).CompletionTime).err
                  \/ /\ pc[l] = "fetch"
                     /\ events'[l] = Append(events[l], "fetcherr")
                  \/ /\ pc[l] = "fetch"
                     /\ events'[l] # Append(events[l], "fetcherr")
                     /\ Len(ItemsAt(l)) = 0 )
             => (pc'[l] = "loop" /\ tasks'[l] = Tail(tasks[l]))]_vars
    /\ \A l \in Loops : \A n \in 1..(MaxTasks + 1) :
          (pc[l] = "loop" /\ Len(tasks[l]) = n) ~> (pc[l] = "loop" /\ Len(tasks[l]) = n - 1)

C17_Witness ==
    /\ events[1] = <<"fetcherr", "handoff">>
    /\ pc[1] = "select"

\* C18: the watermark always has the value NewGlobusTaskMonitor gave it, so
\* a task whose completion time parses and is after that value is admitted.
C18_WatermarkNeverMoves ==
    /\ lastProcessedTime = InitialLastProcessedTime
    /\ \A l \in Loops :
          ( /\ pc[l] = "loop" /\ tasks[l] # << >>
            /\ ~TimeParse(Head(tasks[l]).CompletionTime).err
            /\ After(TimeParse(Head(tasks[l]).CompletionTime).t, InitialLastProcessedTime) )
          => processTask(lastProcessedTime, Head(tasks[l]))

C18_Witness ==
    /\ lastProcessedTime = InitialLastProcessedTime
    /\ handoffs[<<"g">>] = MaxHandoffs
    /\ qerr[1]
    /\ pc[1] = "done"

\* C19: the identifier handed off for a destination path
\* /<category>/<subcategory>/<id>/<project>/<rest> is its <id> segment.
C19_IdIsIdSegment ==
    \A l \in Loops :
        ( /\ Len(events[l]) > 0 /\ events[l][Len(events[l])] = "handoff"
          /\ Len(transfers[l]) > 0 )
        => processTransfers(finishedGlobusTasks, transfers[l]).id
              = Split(transfers[l][1].DestinationPath, "/")[4]

=============================================================================
